---- MODULE Spec2Model ----
(***************************************************************************)
(* A model of the safe wrappers of openssl/src/pkey_ctx.rs (PkeyCtx, the   *)
(* key operation context) and openssl/src/x509/verify.rs (X509VerifyParam, *)
(* the certificate verification parameters).                               *)
(*                                                                         *)
(* The wrappers are translated from the Rust source.  The native provider  *)
(* they call (EVP_PKEY_*, X509_VERIFY_PARAM_*, OPENSSL_malloc/free), the   *)
(* ffi constant table and the cvt/cvt_p helpers live outside these two     *)
(* files; they are modelled from the behaviour the specification assigns   *)
(* to them.  RSA is replaced by a toy block cipher of KeySize bytes with   *)
(* the same shape: an encoding step (PKCS1, OAEP or none) followed by a    *)
(* key permutation of the block.                                           *)
(***************************************************************************)
EXTENDS Integers, Sequences, FiniteSets, TLC

\* ------------------------------------------------------------------ bounds

\* Size in bytes of the toy key: every ciphertext and derived secret has
\* this length, and it is the upper bound the length queries return.
KeySize == 3
\* Longest vector handed to a *_to_vec call (the "base" of the call).
MaxBase == 1
\* Number of label copies the program allocates over its life.
MaxAllocs == 2

\* ---------------------------------------------------------------- inputs

Families == {"RSA", "EC", "CMAC"}

\* The key a context is created for: its family and the capability tag T of
\* PkeyCtx<T> ("none" is PkeyCtx<()>, created by new_id).
Keys ==
    { [fam |-> "RSA", cap |-> "private"], [fam |-> "RSA", cap |-> "public"],
      [fam |-> "EC", cap |-> "private"], [fam |-> "CMAC", cap |-> "none"] }

HasPublic(k) == k.cap \in {"public", "private"}
HasPrivate(k) == k.cap = "private"

Paddings == {"NONE", "PKCS1", "OAEP", "PSS"}
Mds == {"sha1", "sha256"}

\* Caller byte slices used as plaintext: for each length 0..KeySize one
\* slice that starts with a zero byte and one that does not.
Plain(n, s) == [i \in 1..n |-> IF (i + s) % 2 = 0 THEN 0 ELSE 4 + i]
Plaintexts == { Plain(n, s) : n \in 0..KeySize, s \in {0, 1} }

\* A usize length, written in two digits of base 2^16 (hi * 65536 + lo) so
\* that lengths around 2^31 are exact.
USize(hi, lo) == [hi |-> hi, lo |-> lo]

\* c_int::try_from(len).is_ok(): len <= 2^31 - 1, that is hi <= 2^15 - 1.
FitsCInt(n) == n.hi < 32768

IsEmpty(n) == n.hi = 0 /\ n.lo = 0

\* OAEP labels and MAC keys are slices of which only the length and, for
\* the label, a content tag matter; one of each has 2^31 bytes.
Labels == { [len |-> USize(0, 1), tag |-> 7], [len |-> USize(32768, 0), tag |-> 9] }
MacKeyLens == {USize(0, 0), USize(0, 16), USize(32767, 65535), USize(32768, 0)}

\* The vectors a caller hands to a *_to_vec call.
InitVecs == { [i \in 1..n |-> 9] : n \in 0..MaxBase }

\* An Option<&mut [u8]> argument: only the slice's length matters to the
\* wrapper; its contents come back in the call's result.
None == [some |-> FALSE, len |-> 0]
Some(n) == [some |-> TRUE, len |-> n]
Buffers == {None, Some(0), Some(KeySize)}

\* ------------------------------------------------------------------ state

VARIABLES
    key,       \* the key (family, capability) the program works with
    pc,        \* "start": no context yet; "live"; "done": owner gone
    handle,    \* the native EVP_PKEY_CTX: "null", "live" or "freed"
    owner,     \* the PkeyCtx value: "none", "owned" or "dropped"
    ctxFrees,  \* number of EVP_PKEY_CTX_free calls made
    ctx,       \* the provider's state of the context
    heap,      \* OPENSSL_malloc'ed label copies, in allocation order
    lastInit,  \* the mode of the most recent *_init that returned Ok
    ret,       \* the most recent PkeyCtx call: what was asked, what came back
    vp,        \* the provider's state of the X509_VERIFY_PARAM
    vlife,     \* who holds the X509_VERIFY_PARAM and whether it was freed
    vret,      \* the most recent X509VerifyParamRef call
    vprev      \* the flag call (set_flags, clear_flags) just before it, if any

pvars == <<key, pc, handle, owner, ctxFrees, ctx, heap, lastInit, ret>>
vvars == <<vp, vlife, vret, vprev>>
vars == <<pvars, vvars>>

\* ------------------------------------------------------- provider (native)

\* crate::cvt: a non-positive return of a native call is an error.
cvt(r) == r > 0

\* crate::cvt_p: a null pointer returned by a native call is an error.
cvt_p(p) == p # "null"

FreshCtx ==
    [operation |-> "undefined", pad |-> "PKCS1", oaepMd |-> "sha1",
     mgf1Md |-> "sha1", label |-> 0, peer |-> FALSE, cipher |-> FALSE,
     macKey |-> FALSE]

\* OPENSSL_malloc: a new cell at the end of the heap; its address is its
\* index (0 is the null pointer).
OPENSSL_malloc(h, label) ==
    Append(h, [len |-> label.len, tag |-> label.tag, frees |-> 0, by |-> "none",
               handed |-> FALSE])

\* OPENSSL_free of address p by `who`; freeing null does nothing.
OPENSSL_free(h, p, who) ==
    IF p = 0 THEN h ELSE [h EXCEPT ![p].frees = @ + 1, ![p].by = who]

\* Which modes the provider implements for a key family.
Supported(fam, op) ==
    \/ fam = "RSA" /\ op \in {"encrypt", "decrypt", "keygen"}
    \/ fam = "EC" /\ op \in {"derive", "keygen"}
    \/ fam = "CMAC" /\ op = "keygen"

\* EVP_PKEY_<op>_init: a reset of the context into mode op, discarding the
\* tuning (and releasing the label the provider owns); a mode the family
\* does not implement is rejected and changes nothing.
EVP_PKEY_op_init(c, h, fam, op) ==
    IF Supported(fam, op)
    THEN [rc |-> 1, ctx |-> [FreshCtx EXCEPT !.operation = op],
          heap |-> OPENSSL_free(h, c.label, "provider")]
    ELSE [rc |-> -2, ctx |-> c, heap |-> h]

EVP_PKEY_encrypt_init(c, h, fam) == EVP_PKEY_op_init(c, h, fam, "encrypt")
EVP_PKEY_decrypt_init(c, h, fam) == EVP_PKEY_op_init(c, h, fam, "decrypt")
EVP_PKEY_derive_init(c, h, fam) == EVP_PKEY_op_init(c, h, fam, "derive")
EVP_PKEY_keygen_init(c, h, fam) == EVP_PKEY_op_init(c, h, fam, "keygen")

RsaCrypt(c, fam) == fam = "RSA" /\ c.operation \in {"encrypt", "decrypt"}

EVP_PKEY_CTX_set_rsa_padding(c, fam, pad) ==
    IF RsaCrypt(c, fam) /\ pad \in {"NONE", "PKCS1", "OAEP"}
    THEN [rc |-> 1, ctx |-> [c EXCEPT !.pad = pad]]
    ELSE [rc |-> -2, ctx |-> c]

EVP_PKEY_CTX_get_rsa_padding(c, fam) ==
    IF RsaCrypt(c, fam) THEN [rc |-> 1, pad |-> c.pad] ELSE [rc |-> -2, pad |-> "NONE"]

EVP_PKEY_CTX_set_rsa_mgf1_md(c, fam, md) ==
    IF RsaCrypt(c, fam) /\ c.pad = "OAEP"
    THEN [rc |-> 1, ctx |-> [c EXCEPT !.mgf1Md = md]]
    ELSE [rc |-> -2, ctx |-> c]

EVP_PKEY_CTX_set_rsa_oaep_md(c, fam, md) ==
    IF RsaCrypt(c, fam) /\ c.pad = "OAEP"
    THEN [rc |-> 1, ctx |-> [c EXCEPT !.oaepMd = md]]
    ELSE [rc |-> -2, ctx |-> c]

\* EVP_PKEY_CTX_set0_rsa_oaep_label: on success the provider releases the
\* label it held and owns p from then on; on failure it does not touch p.
EVP_PKEY_CTX_set0_rsa_oaep_label(c, h, fam, p) ==
    IF RsaCrypt(c, fam) /\ c.pad = "OAEP"
    THEN [rc |-> 1, ctx |-> [c EXCEPT !.label = p],
          heap |-> LET h1 == OPENSSL_free(h, c.label, "provider")
                   IN  IF p = 0 THEN h1 ELSE [h1 EXCEPT ![p].handed = TRUE]]
    ELSE [rc |-> -2, ctx |-> c, heap |-> h]

\* EVP_PKEY_CTX_ctrl(ctx, -1, EVP_PKEY_OP_KEYGEN, cmd, ...) for the two
\* keyed-generation controls.
EVP_PKEY_CTX_ctrl(c, fam, cmd) ==
    IF fam = "CMAC" /\ c.operation = "keygen"
    THEN [rc |-> 1,
          ctx |-> IF cmd = "CIPHER" THEN [c EXCEPT !.cipher = TRUE]
                  ELSE [c EXCEPT !.macKey = TRUE]]
    ELSE [rc |-> -2, ctx |-> c]

EVP_PKEY_derive_set_peer(c, fam, peerFam) ==
    IF c.operation = "derive" /\ peerFam = fam
    THEN [rc |-> 1, ctx |-> [c EXCEPT !.peer = TRUE]]
    ELSE [rc |-> -2, ctx |-> c]

EVP_PKEY_keygen(c, fam) ==
    IF c.operation = "keygen" /\ (fam = "CMAC" => c.cipher /\ c.macKey)
    THEN [rc |-> 1] ELSE [rc |-> -1]

\* EVP_PKEY_CTX_free: the handle is gone and so is the label it owned.
EVP_PKEY_CTX_free(c, h) == OPENSSL_free(h, c.label, "provider")

\* ---- the toy cipher

Fill(n, b) == [i \in 1..n |-> b]
Suffix(s, from) == SubSeq(s, from, Len(s))
Bad == [ok |-> FALSE, m |-> <<>>]
Good(m) == [ok |-> TRUE, m |-> m]

\* The key permutation of a block and its inverse.
PublicOp(blk) == [i \in 1..Len(blk) |-> (blk[i] + 35) % 256]
PrivateOp(blk) == [i \in 1..Len(blk) |-> (blk[i] + 221) % 256]

LabelTag(c, h) == IF c.label = 0 \/ c.label > Len(h) THEN 0 ELSE h[c.label].tag
LHash(md, tag) == (IF md = "sha1" THEN 1 ELSE 2) * 16 + tag
MgfMask(md) == IF md = "sha1" THEN 17 ELSE 99

\* PKCS1: nonzero filler, a zero byte, the message.
PKCS1_encode(m, seed) ==
    IF Len(m) > KeySize - 1 THEN Bad
    ELSE Good(Fill(KeySize - 1 - Len(m), 253 + seed) \o <<0>> \o m)

PKCS1_decode(blk) ==
    LET zs == { i \in 1..Len(blk) : blk[i] = 0 }
    IN  IF zs = {} THEN Bad
        ELSE LET z == CHOOSE i \in zs : \A j \in zs : i <= j
             IN  Good(Suffix(blk, z + 1))

\* OAEP: the label hash, then (masked) zero filler, a one byte, the message.
OAEP_encode(c, h, m) ==
    IF Len(m) > KeySize - 2 THEN Bad
    ELSE LET db == Fill(KeySize - 2 - Len(m), 0) \o <<1>> \o m
         IN  Good(<<LHash(c.oaepMd, LabelTag(c, h))>>
                  \o [i \in 1..Len(db) |-> (db[i] + MgfMask(c.mgf1Md)) % 256])

OAEP_decode(c, h, blk) ==
    IF Len(blk) < 2 \/ blk[1] # LHash(c.oaepMd, LabelTag(c, h)) THEN Bad
    ELSE LET db == [i \in 1..Len(blk) - 1 |->
                      (blk[i + 1] + 256 - MgfMask(c.mgf1Md)) % 256]
             nz == { i \in 1..Len(db) : db[i] # 0 }
         IN  IF nz = {} THEN Bad
             ELSE LET o == CHOOSE i \in nz : \A j \in nz : i <= j
                  IN  IF db[o] # 1 THEN Bad ELSE Good(Suffix(db, o + 1))

Encode(c, h, m, seed) ==
    CASE c.pad = "PKCS1" -> PKCS1_encode(m, seed)
      [] c.pad = "OAEP" -> OAEP_encode(c, h, m)
      [] OTHER -> IF Len(m) = KeySize THEN Good(m) ELSE Bad

Decode(c, h, blk) ==
    CASE c.pad = "PKCS1" -> PKCS1_decode(blk)
      [] c.pad = "OAEP" -> OAEP_decode(c, h, blk)
      [] OTHER -> Good(blk)

NativeErr(rc) == [rc |-> rc, outlen |-> 0, bytes |-> <<>>]

\* EVP_PKEY_encrypt(ctx, out, &outlen, in, inlen).  outNull: out is null;
\* outlen: the value of *outlen on entry.  The result carries *outlen on
\* return and the bytes written to out.
EVP_PKEY_encrypt(c, h, outNull, outlen, from, seed) ==
    IF c.operation # "encrypt" THEN NativeErr(-1)
    ELSE IF outNull THEN [rc |-> 1, outlen |-> KeySize, bytes |-> <<>>]
    ELSE IF outlen < KeySize THEN NativeErr(0)
    ELSE LET e == Encode(c, h, from, seed)
         IN  IF ~e.ok THEN NativeErr(0)
             ELSE [rc |-> 1, outlen |-> KeySize, bytes |-> PublicOp(e.m)]

EVP_PKEY_decrypt(c, h, outNull, outlen, from) ==
    IF c.operation # "decrypt" THEN NativeErr(-1)
    ELSE IF outNull THEN [rc |-> 1, outlen |-> KeySize, bytes |-> <<>>]
    ELSE IF outlen < KeySize THEN NativeErr(0)
    ELSE IF Len(from) # KeySize THEN NativeErr(0)
    ELSE LET d == Decode(c, h, PrivateOp(from))
         IN  IF ~d.ok THEN NativeErr(0)
             ELSE [rc |-> 1, outlen |-> Len(d.m), bytes |-> d.m]

EVP_PKEY_derive(c, outNull, outlen) ==
    IF c.operation # "derive" \/ ~c.peer THEN NativeErr(-1)
    ELSE IF outNull THEN [rc |-> 1, outlen |-> KeySize, bytes |-> <<>>]
    ELSE IF outlen < KeySize THEN NativeErr(0)
    ELSE [rc |-> 1, outlen |-> KeySize, bytes |-> [i \in 1..KeySize |-> 60 + i]]

\* ---------------------------------------------------------------- wrappers
\* Each wrapper is an operator from the state it reads to its result and
\* the state it leaves; the actions below apply them to the variables.

\* A faulty variant of PkeyCtx_new: the pointer is wrapped unchecked.
PkeyCtx_new_unchecked(ptr) == [ok |-> TRUE, owner |-> "owned"]

\* PkeyCtx::new / PkeyCtx::new_id after the native constructor returned ptr:
\* `cvt_p(ptr)?` then `PkeyCtx::from_ptr(ptr)`.
PkeyCtx_new(ptr) ==
    IF cvt_p(ptr) THEN [ok |-> TRUE, owner |-> "owned"]
    ELSE [ok |-> FALSE, owner |-> "none"]

InitResult(r) == [ok |-> cvt(r.rc), ctx |-> r.ctx, heap |-> r.heap]

\* A faulty variant of encrypt_init: it calls the decrypt initialiser.
encrypt_init_as_decrypt(c, h, fam) == InitResult(EVP_PKEY_decrypt_init(c, h, fam))

encrypt_init(c, h, fam) == InitResult(EVP_PKEY_encrypt_init(c, h, fam))
decrypt_init(c, h, fam) == InitResult(EVP_PKEY_decrypt_init(c, h, fam))
derive_init(c, h, fam) == InitResult(EVP_PKEY_derive_init(c, h, fam))
keygen_init(c, h, fam) == InitResult(EVP_PKEY_keygen_init(c, h, fam))

\* The result of a buffer-producing call: Ok(val) or Err, and the bytes
\* the native call put into the caller's buffer.
BufResult(r, written) ==
    IF cvt(r.rc) THEN [ok |-> TRUE, val |-> written, bytes |-> r.bytes]
    ELSE [ok |-> FALSE, val |-> 0, bytes |-> <<>>]

\* A faulty variant of encrypt: the native call gets a copy of `written`,
\* and the value returned is the one `written` started with.
encrypt_stale(c, h, from, to, seed) ==
    LET written == IF to.some THEN to.len ELSE 0
        r == EVP_PKEY_encrypt(c, h, ~to.some, written, from, seed)
    IN  BufResult(r, written)

\* `written` starts as the buffer's length (0 without a buffer), is passed
\* by reference as *outlen, and is returned as the call updated it.
encrypt(c, h, from, to, seed) ==
    LET written == IF to.some THEN to.len ELSE 0
        r == EVP_PKEY_encrypt(c, h, ~to.some, written, from, seed)
    IN  BufResult(r, r.outlen)

decrypt(c, h, from, to) ==
    LET written == IF to.some THEN to.len ELSE 0
        r == EVP_PKEY_decrypt(c, h, ~to.some, written, from)
    IN  BufResult(r, r.outlen)

derive(c, buf) ==
    LET len == IF buf.some THEN buf.len ELSE 0
        r == EVP_PKEY_derive(c, ~buf.some, len)
    IN  BufResult(r, r.outlen)

\* Vec::resize, Vec::truncate, and a native write through &mut v[base..].
Resize(v, n, b) == IF n <= Len(v) THEN SubSeq(v, 1, n) ELSE v \o Fill(n - Len(v), b)
Truncate(v, n) == IF n >= Len(v) THEN v ELSE SubSeq(v, 1, n)
WriteAt(v, base, bytes) ==
    [i \in 1..Len(v) |->
        IF i > base /\ i <= base + Len(bytes) THEN bytes[i - base] ELSE v[i]]

\* `?` after the length query: one native call was made, the vector is v.
QueryErr(v) ==
    [ok |-> FALSE, val |-> 0, out |-> v, bound |-> 0, wrote |-> <<>>, calls |-> 1]

\* `?` after the real call: two native calls were made, the vector is v.
VecErr(v, bound) ==
    [ok |-> FALSE, val |-> 0, out |-> v, bound |-> bound, wrote |-> <<>>,
     calls |-> 2]

\* A faulty variant of VecFinish: a failed real call shrinks the vector back.
VecFinish_shrinks(v1, base, q, r) ==
    IF ~r.ok THEN VecErr(SubSeq(v1, 1, base), q.val)
    ELSE [ok |-> TRUE, val |-> r.val, bound |-> q.val, wrote |-> r.bytes,
          calls |-> 2, out |-> Truncate(WriteAt(v1, base, r.bytes), base + r.val)]

\* The tail of a *_to_vec call once the length query returned q and the
\* real call on &mut v1[base..] returned r.
VecFinish(v1, base, q, r) ==
    IF ~r.ok THEN VecErr(v1, q.val)
    ELSE [ok |-> TRUE, val |-> r.val, bound |-> q.val, wrote |-> r.bytes,
          calls |-> 2, out |-> Truncate(WriteAt(v1, base, r.bytes), base + r.val)]

encrypt_to_vec(c, h, from, v, seed) ==
    LET base == Len(v)
        q == encrypt(c, h, from, None, seed)
    IN  IF ~q.ok THEN QueryErr(v)
        ELSE LET v1 == Resize(v, base + q.val, 0)
                 r == encrypt(c, h, from, Some(Len(v1) - base), seed)
             IN  VecFinish(v1, base, q, r)

\* A faulty variant of decrypt_to_vec: `out.truncate(len)`, base forgotten.
decrypt_to_vec_short(c, h, from, v) ==
    LET base == Len(v)
        q == decrypt(c, h, from, None)
    IN  IF ~q.ok THEN QueryErr(v)
        ELSE LET v1 == Resize(v, base + q.val, 0)
                 r == decrypt(c, h, from, Some(Len(v1) - base))
             IN  IF ~r.ok THEN VecErr(v1, q.val)
                 ELSE [ok |-> TRUE, val |-> r.val, bound |-> q.val,
                       wrote |-> r.bytes, calls |-> 2,
                       out |-> Truncate(WriteAt(v1, base, r.bytes), r.val)]

\* A faulty variant of decrypt_to_vec: the vector is not truncated.
decrypt_to_vec_untruncated(c, h, from, v) ==
    LET base == Len(v)
        q == decrypt(c, h, from, None)
    IN  IF ~q.ok THEN QueryErr(v)
        ELSE LET v1 == Resize(v, base + q.val, 0)
                 r == decrypt(c, h, from, Some(Len(v1) - base))
             IN  IF ~r.ok THEN VecErr(v1, q.val)
                 ELSE [ok |-> TRUE, val |-> r.val, bound |-> q.val,
                       wrote |-> r.bytes, calls |-> 2,
                       out |-> WriteAt(v1, base, r.bytes)]

decrypt_to_vec(c, h, from, v) ==
    LET base == Len(v)
        q == decrypt(c, h, from, None)
    IN  IF ~q.ok THEN QueryErr(v)
        ELSE LET v1 == Resize(v, base + q.val, 0)
                 r == decrypt(c, h, from, Some(Len(v1) - base))
             IN  VecFinish(v1, base, q, r)

derive_to_vec(c, v) ==
    LET base == Len(v)
        q == derive(c, None)
    IN  IF ~q.ok THEN QueryErr(v)
        ELSE LET v1 == Resize(v, base + q.val, 0)
                 r == derive(c, Some(Len(v1) - base))
             IN  VecFinish(v1, base, q, r)

\* Tuning setters that only forward to the provider.
TuneResult(r) == [res |-> IF cvt(r.rc) THEN "ok" ELSE "err", ctx |-> r.ctx]

set_rsa_padding(c, fam, pad) == TuneResult(EVP_PKEY_CTX_set_rsa_padding(c, fam, pad))
set_rsa_mgf1_md(c, fam, md) == TuneResult(EVP_PKEY_CTX_set_rsa_mgf1_md(c, fam, md))
set_rsa_oaep_md(c, fam, md) == TuneResult(EVP_PKEY_CTX_set_rsa_oaep_md(c, fam, md))
set_keygen_cipher(c, fam) == TuneResult(EVP_PKEY_CTX_ctrl(c, fam, "CIPHER"))
derive_set_peer(c, fam, peerFam) == TuneResult(EVP_PKEY_derive_set_peer(c, fam, peerFam))

rsa_padding(c, fam) ==
    LET r == EVP_PKEY_CTX_get_rsa_padding(c, fam)
    IN  IF cvt(r.rc) THEN [res |-> "ok", pad |-> r.pad] ELSE [res |-> "err", pad |-> ""]

keygen(c, fam) == IF cvt(EVP_PKEY_keygen(c, fam).rc) THEN "ok" ELSE "err"

\* set_keygen_mac_key: `c_int::try_from(key.len()).unwrap()` panics on a
\* length that does not fit a c_int, before the native call.
set_keygen_mac_key(c, fam, keyLen) ==
    IF ~FitsCInt(keyLen) THEN [res |-> "panic", ctx |-> c, native |-> FALSE]
    ELSE LET r == EVP_PKEY_CTX_ctrl(c, fam, "SET_MAC_KEY")
         IN  [res |-> IF cvt(r.rc) THEN "ok" ELSE "err", ctx |-> r.ctx,
              native |-> TRUE]

\* A faulty variant of LabelCleanup: the copy is freed on every path.
LabelCleanupAlways(h, p, ok) == OPENSSL_free(h, p, "wrapper")

\* The end of set_rsa_oaep_label: `if r.is_err() { OPENSSL_free(p) }`.
LabelCleanup(h, p, ok) == IF ~ok THEN OPENSSL_free(h, p, "wrapper") ELSE h

\* set_rsa_oaep_label.  mallocOk: whether OPENSSL_malloc returns memory;
\* ub: what copying a non-empty label to a null pointer does in this build
\* ("crash": the process dies; "continue": nothing observable).
set_rsa_oaep_label(c, h, fam, label, mallocOk, ub) ==
    IF ~FitsCInt(label.len) THEN [res |-> "panic", ctx |-> c, heap |-> h]
    ELSE LET h1 == IF mallocOk THEN OPENSSL_malloc(h, label) ELSE h
             p == IF mallocOk THEN Len(h1) ELSE 0
         IN  IF p = 0 /\ ~IsEmpty(label.len) /\ ub = "crash"
             THEN [res |-> "crash", ctx |-> c, heap |-> h1]
             ELSE LET r == EVP_PKEY_CTX_set0_rsa_oaep_label(c, h1, fam, p)
                  IN  [res |-> IF cvt(r.rc) THEN "ok" ELSE "err", ctx |-> r.ctx,
                       heap |-> LabelCleanup(r.heap, p, cvt(r.rc))]

\* Drop of the owning PkeyCtx: `fn drop = ffi::EVP_PKEY_CTX_free`.
PkeyCtx_drop(c, h, frees) ==
    [handle |-> "freed", frees |-> frees + 1, heap |-> EVP_PKEY_CTX_free(c, h)]

\* ------------------------------------------------- the encrypting context

SameTuning(c1, h1, c2, h2) ==
    /\ c1.pad = c2.pad /\ c1.oaepMd = c2.oaepMd /\ c1.mgf1Md = c2.mgf1Md
    /\ LabelTag(c1, h1) = LabelTag(c2, h2)

World(c, h) == [ctx |-> c, heap |-> h]

\* A second context of the same key, prepared as the tests prepare theirs:
\* encrypt_init, then the padding, the digests and the label.
PlainPeer(fam) ==
    LET w == encrypt_init(FreshCtx, <<>>, fam) IN World(w.ctx, w.heap)

\* The same, tuned with the padding, digests and label that context c has
\* (the digests and the label can only be set under OAEP padding).
TunedPeer(c, h, fam) ==
    LET w0 == PlainPeer(fam)
        w1 == set_rsa_padding(w0.ctx, fam, "OAEP").ctx
        w2 == set_rsa_oaep_md(w1, fam, c.oaepMd).ctx
        w3 == set_rsa_mgf1_md(w2, fam, c.mgf1Md).ctx
        w4 == IF LabelTag(c, h) = 0 THEN World(w3, w0.heap)
              ELSE LET l == [len |-> h[c.label].len, tag |-> h[c.label].tag]
                       r == set_rsa_oaep_label(w3, w0.heap, fam, l, TRUE, "crash")
                   IN  World(r.ctx, r.heap)
    IN  World(set_rsa_padding(w4.ctx, fam, c.pad).ctx, w4.heap)

\* What a caller passes to decrypt: [ct: the bytes, pt: the plaintext they
\* were made from, made: whether an encryption made them, match: whether
\* the encrypting context was tuned like the decrypting one].
CtsOf(w, c, h) ==
    { [ct |-> encrypt_to_vec(w.ctx, w.heap, pt, <<>>, seed).out, pt |-> pt,
       made |-> TRUE, match |-> SameTuning(w.ctx, w.heap, c, h)] :
         pt \in { m \in Plaintexts :
                    \E sd \in {1, 2} : encrypt_to_vec(w.ctx, w.heap, m, <<>>, sd).ok },
         seed \in {1, 2} }

Forged(ct) == [ct |-> ct, pt |-> <<>>, made |-> FALSE, match |-> FALSE]

DecInputs(c, h, fam) ==
    CtsOf(TunedPeer(c, h, fam), c, h) \cup CtsOf(PlainPeer(fam), c, h)
        \cup {Forged(Fill(KeySize, 40)), Forged(<<>>)}

\* ---------------------------------------------------------------- actions

\* The record of a call: op, the result res ("ok", "err", "panic",
\* "crash"), the value returned (val; pad for rsa_padding), the inputs
\* (data, len, to; pre is the vector handed to a *_to_vec call and out the
\* same vector after the call; src is the DecInputs record of a decrypt)
\* and what the native side reported (bound: the length query's answer;
\* wrote: the bytes the real call wrote; native: whether a native call was
\* made; calls: how many native calls a *_to_vec call made).
NoRet ==
    [op |-> "none", res |-> "ok", val |-> 0, data |-> <<>>, len |-> USize(0, 0),
     to |-> None, pre |-> <<>>, out |-> <<>>, bound |-> 0, wrote |-> <<>>, native |-> FALSE,
     pad |-> "", src |-> Forged(<<>>), calls |-> 0]
Ret(op, res) == [NoRet EXCEPT !.op = op, !.res = res, !.native = TRUE]
ResOf(ok) == IF ok THEN "ok" ELSE "err"

PkeyInit ==
    /\ key \in Keys
    /\ pc = "start"
    /\ handle = "null"
    /\ owner = "none"
    /\ ctxFrees = 0
    /\ ctx = FreshCtx
    /\ heap = <<>>
    /\ lastInit = "undefined"
    /\ ret = NoRet

\* PkeyCtx::new(&key): EVP_PKEY_CTX_new returns a context or null.
New ==
    /\ pc = "start" /\ key.cap # "none"
    /\ \E ptr \in {"live", "null"} :
         LET r == PkeyCtx_new(ptr)
         IN  /\ handle' = ptr
             /\ owner' = r.owner
             /\ pc' = IF r.ok THEN "live" ELSE "done"
             /\ ret' = Ret("new", ResOf(r.ok))
    /\ UNCHANGED <<vvars, key, ctxFrees, ctx, heap, lastInit>>

\* PkeyCtx::new_id(id): EVP_PKEY_CTX_new_id returns a context or null.
NewId ==
    /\ pc = "start" /\ key.cap = "none"
    /\ \E ptr \in {"live", "null"} :
         LET r == PkeyCtx_new(ptr)
         IN  /\ handle' = ptr
             /\ owner' = r.owner
             /\ pc' = IF r.ok THEN "live" ELSE "done"
             /\ ret' = Ret("new_id", ResOf(r.ok))
    /\ UNCHANGED <<vvars, key, ctxFrees, ctx, heap, lastInit>>

\* The owner goes out of scope (also: is unwound by a panic).
Drop ==
    /\ pc = "live" /\ owner = "owned"
    /\ LET r == PkeyCtx_drop(ctx, heap, ctxFrees)
       IN  /\ handle' = r.handle
           /\ ctxFrees' = r.frees
           /\ heap' = r.heap
    /\ owner' = "dropped"
    /\ pc' = "done"
    /\ ret' = Ret("drop", "ok")
    /\ UNCHANGED <<vvars, key, ctx, lastInit>>

Live == pc = "live" /\ owner = "owned"

InitCall(op, r) ==
    /\ ctx' = r.ctx
    /\ heap' = r.heap
    /\ lastInit' = IF r.ok THEN op ELSE lastInit
    /\ ret' = Ret(op \o "_init", ResOf(r.ok))
    /\ UNCHANGED <<vvars, key, pc, handle, owner, ctxFrees>>

EncryptInit == Live /\ HasPublic(key) /\ InitCall("encrypt", encrypt_init(ctx, heap, key.fam))
DecryptInit == Live /\ HasPrivate(key) /\ InitCall("decrypt", decrypt_init(ctx, heap, key.fam))
DeriveInit == Live /\ HasPrivate(key) /\ InitCall("derive", derive_init(ctx, heap, key.fam))
KeygenInit == Live /\ InitCall("keygen", keygen_init(ctx, heap, key.fam))

TuneCall(op, r) ==
    /\ ctx' = r.ctx
    /\ ret' = Ret(op, r.res)
    /\ UNCHANGED <<vvars, key, pc, handle, owner, ctxFrees, heap, lastInit>>

SetRsaPadding == Live /\ \E p \in Paddings : TuneCall("set_rsa_padding", set_rsa_padding(ctx, key.fam, p))
SetRsaMgf1Md == Live /\ \E md \in Mds : TuneCall("set_rsa_mgf1_md", set_rsa_mgf1_md(ctx, key.fam, md))
SetRsaOaepMd == Live /\ \E md \in Mds : TuneCall("set_rsa_oaep_md", set_rsa_oaep_md(ctx, key.fam, md))
SetKeygenCipher == Live /\ TuneCall("set_keygen_cipher", set_keygen_cipher(ctx, key.fam))
DeriveSetPeer ==
    /\ Live /\ HasPrivate(key)
    /\ \E peerFam \in {"RSA", "EC"} :
         TuneCall("derive_set_peer", derive_set_peer(ctx, key.fam, peerFam))

RsaPadding ==
    /\ Live
    /\ LET r == rsa_padding(ctx, key.fam)
       IN  ret' = [Ret("rsa_padding", r.res) EXCEPT !.pad = r.pad]
    /\ UNCHANGED <<vvars, key, pc, handle, owner, ctxFrees, ctx, heap, lastInit>>

SetKeygenMacKey ==
    /\ Live
    /\ \E n \in MacKeyLens :
         LET r == set_keygen_mac_key(ctx, key.fam, n)
         IN  /\ ctx' = r.ctx
             /\ ret' = [Ret("set_keygen_mac_key", r.res) EXCEPT
                          !.len = n, !.native = r.native]
    /\ UNCHANGED <<vvars, key, pc, handle, owner, ctxFrees, heap, lastInit>>

\* ret.val: the number of copies the call allocated.
SetRsaOaepLabel ==
    /\ Live /\ Len(heap) < MaxAllocs
    /\ \E label \in Labels, mallocOk \in BOOLEAN, ub \in {"crash", "continue"} :
         LET r == set_rsa_oaep_label(ctx, heap, key.fam, label, mallocOk, ub)
         IN  /\ ctx' = r.ctx
             /\ heap' = r.heap
             /\ pc' = IF r.res = "crash" THEN "crashed" ELSE pc
             /\ ret' = [Ret("set_rsa_oaep_label", r.res) EXCEPT
                          !.len = label.len, !.val = Len(r.heap) - Len(heap)]
    /\ UNCHANGED <<vvars, key, handle, owner, ctxFrees, lastInit>>

Keygen ==
    /\ Live
    /\ ret' = Ret("keygen", keygen(ctx, key.fam))
    /\ UNCHANGED <<vvars, key, pc, handle, owner, ctxFrees, ctx, heap, lastInit>>

BufRet(op, r, data, to) ==
    [Ret(op, ResOf(r.ok)) EXCEPT !.val = r.val, !.data = data, !.to = to,
                                 !.wrote = r.bytes]

Encrypt ==
    /\ Live /\ HasPublic(key)
    /\ \E from \in Plaintexts, to \in Buffers, seed \in {1, 2} :
         ret' = BufRet("encrypt", encrypt(ctx, heap, from, to, seed), from, to)
    /\ UNCHANGED <<vvars, key, pc, handle, owner, ctxFrees, ctx, heap, lastInit>>

Decrypt ==
    /\ Live /\ HasPrivate(key)
    /\ \E in \in DecInputs(ctx, heap, key.fam), to \in Buffers :
         ret' = [BufRet("decrypt", decrypt(ctx, heap, in.ct, to), in.ct, to)
                   EXCEPT !.src = in]
    /\ UNCHANGED <<vvars, key, pc, handle, owner, ctxFrees, ctx, heap, lastInit>>

Derive ==
    /\ Live /\ HasPrivate(key)
    /\ \E buf \in Buffers :
         ret' = BufRet("derive", derive(ctx, buf), <<>>, buf)
    /\ UNCHANGED <<vvars, key, pc, handle, owner, ctxFrees, ctx, heap, lastInit>>

VecRet(op, r, data, v) ==
    [Ret(op, ResOf(r.ok)) EXCEPT !.val = r.val, !.data = data, !.pre = v,
                                 !.out = r.out, !.bound = r.bound,
                                 !.wrote = r.wrote, !.calls = r.calls]

EncryptToVec ==
    /\ Live /\ HasPublic(key)
    /\ \E from \in Plaintexts, v \in InitVecs, seed \in {1, 2} :
         LET r == encrypt_to_vec(ctx, heap, from, v, seed)
         IN  ret' = VecRet("encrypt_to_vec", r, from, v)
    /\ UNCHANGED <<vvars, key, pc, handle, owner, ctxFrees, ctx, heap, lastInit>>

DecryptToVec ==
    /\ Live /\ HasPrivate(key)
    /\ \E in \in DecInputs(ctx, heap, key.fam), v \in InitVecs :
         LET r == decrypt_to_vec(ctx, heap, in.ct, v)
         IN  ret' = [VecRet("decrypt_to_vec", r, in.ct, v) EXCEPT !.src = in]
    /\ UNCHANGED <<vvars, key, pc, handle, owner, ctxFrees, ctx, heap, lastInit>>

DeriveToVec ==
    /\ Live /\ HasPrivate(key)
    /\ \E v \in InitVecs :
         LET r == derive_to_vec(ctx, v)
         IN  ret' = VecRet("derive_to_vec", r, <<>>, v)
    /\ UNCHANGED <<vvars, key, pc, handle, owner, ctxFrees, ctx, heap, lastInit>>

\* ====================================================== X509VerifyParam

\* ---- the provider's constant tables (ffi::X509_V_FLAG_*, decimal)

FFI_X509_V_FLAG ==
    [CB_ISSUER_CHECK |-> 0, USE_CHECK_TIME |-> 2, CRL_CHECK |-> 4,
     CRL_CHECK_ALL |-> 8, IGNORE_CRITICAL |-> 16, X509_STRICT |-> 32,
     ALLOW_PROXY_CERTS |-> 64, POLICY_CHECK |-> 128, EXPLICIT_POLICY |-> 256,
     INHIBIT_ANY |-> 512, INHIBIT_MAP |-> 1024, NOTIFY_POLICY |-> 2048,
     EXTENDED_CRL_SUPPORT |-> 4096, USE_DELTAS |-> 8192,
     CHECK_SS_SIGNATURE |-> 16384, TRUSTED_FIRST |-> 32768,
     SUITEB_128_LOS_ONLY |-> 65536, SUITEB_192_LOS |-> 131072,
     SUITEB_128_LOS |-> 196608, PARTIAL_CHAIN |-> 524288,
     NO_ALT_CHAINS |-> 1048576, NO_CHECK_TIME |-> 2097152]

FFI_X509_CHECK_FLAG ==
    [ALWAYS_CHECK_SUBJECT |-> 1, NO_WILDCARDS |-> 2, NO_PARTIAL_WILDCARDS |-> 4,
     MULTI_LABEL_WILDCARDS |-> 8, SINGLE_LABEL_SUBDOMAINS |-> 16,
     NEVER_CHECK_SUBJECT |-> 32]

\* ---- the wrapper's flag types

\* bitflags! X509CheckFlags: each named constant and the raw value it has.
X509CheckFlags ==
    [ALWAYS_CHECK_SUBJECT |-> FFI_X509_CHECK_FLAG.ALWAYS_CHECK_SUBJECT,
     NO_WILDCARDS |-> FFI_X509_CHECK_FLAG.NO_WILDCARDS,
     NO_PARTIAL_WILDCARDS |-> FFI_X509_CHECK_FLAG.NO_PARTIAL_WILDCARDS,
     MULTI_LABEL_WILDCARDS |-> FFI_X509_CHECK_FLAG.MULTI_LABEL_WILDCARDS,
     SINGLE_LABEL_SUBDOMAINS |-> FFI_X509_CHECK_FLAG.SINGLE_LABEL_SUBDOMAINS,
     NEVER_CHECK_SUBJECT |-> FFI_X509_CHECK_FLAG.NEVER_CHECK_SUBJECT,
     FLAG_NO_WILDCARDS |-> FFI_X509_CHECK_FLAG.NO_WILDCARDS]

\* bitflags! X509VerifyFlags: each named constant (X509_V_FLAG_<name>) and
\* the raw value the source gives it.
X509VerifyFlags ==
    [CB_ISSUER_CHECK |-> FFI_X509_V_FLAG.CB_ISSUER_CHECK,
     USE_CHECK_TIME |-> FFI_X509_V_FLAG.USE_CHECK_TIME,
     CRL_CHECK |-> FFI_X509_V_FLAG.CRL_CHECK,
     CRL_CHECK_ALL |-> FFI_X509_V_FLAG.CRL_CHECK_ALL,
     IGNORE_CRITICAL |-> FFI_X509_V_FLAG.X509_STRICT,
     X509_STRICT |-> FFI_X509_V_FLAG.IGNORE_CRITICAL,
     ALLOW_PROXY_CERTS |-> FFI_X509_V_FLAG.ALLOW_PROXY_CERTS,
     POLICY_CHECK |-> FFI_X509_V_FLAG.POLICY_CHECK,
     EXPLICIT_POLICY |-> FFI_X509_V_FLAG.EXPLICIT_POLICY,
     INHIBIT_ANY |-> FFI_X509_V_FLAG.INHIBIT_ANY,
     INHIBIT_MAP |-> FFI_X509_V_FLAG.INHIBIT_MAP,
     NOTIFY_POLICY |-> FFI_X509_V_FLAG.NOTIFY_POLICY,
     EXTENDED_CRL_SUPPORT |-> FFI_X509_V_FLAG.EXTENDED_CRL_SUPPORT,
     USE_DELTAS |-> FFI_X509_V_FLAG.USE_DELTAS,
     CHECK_SS_SIGNATURE |-> FFI_X509_V_FLAG.CHECK_SS_SIGNATURE,
     TRUSTED_FIRST |-> FFI_X509_V_FLAG.TRUSTED_FIRST,
     SUITEB_128_LOS_ONLY |-> FFI_X509_V_FLAG.SUITEB_128_LOS_ONLY,
     SUITEB_192_LOS |-> FFI_X509_V_FLAG.SUITEB_128_LOS,
     SUITEB_128_LOS |-> FFI_X509_V_FLAG.SUITEB_192_LOS,
     PARTIAL_CHAIN |-> FFI_X509_V_FLAG.PARTIAL_CHAIN,
     NO_ALT_CHAINS |-> FFI_X509_V_FLAG.NO_ALT_CHAINS,
     NO_CHECK_TIME |-> FFI_X509_V_FLAG.NO_CHECK_TIME]

\* ---- bit operations on c_ulong / c_uint values

RECURSIVE BitOr(_, _)
BitOr(a, b) ==
    IF a = 0 THEN b
    ELSE IF b = 0 THEN a
    ELSE (IF a % 2 = 1 \/ b % 2 = 1 THEN 1 ELSE 0) + 2 * BitOr(a \div 2, b \div 2)

RECURSIVE BitAnd(_, _)
BitAnd(a, b) ==
    IF a = 0 \/ b = 0 THEN 0
    ELSE (IF a % 2 = 1 /\ b % 2 = 1 THEN 1 ELSE 0) + 2 * BitAnd(a \div 2, b \div 2)

BitAndNot(a, b) == a - BitAnd(a, b)

\* ---- provider

NoIdent == [kind |-> "none", host |-> "", ip |-> <<>>]

FreshParam == [flags |-> 0, hostflags |-> 0, ident |-> NoIdent]

X509_VERIFY_PARAM_set_hostflags(p, f) == [p EXCEPT !.hostflags = f]

X509_VERIFY_PARAM_set_flags(p, f) ==
    [rc |-> 1, param |-> [p EXCEPT !.flags = BitOr(@, f)]]

X509_VERIFY_PARAM_clear_flags(p, f) ==
    [rc |-> 1, param |-> [p EXCEPT !.flags = BitAndNot(@, f)]]

X509_VERIFY_PARAM_get_flags(p) == p.flags

\* X509_VERIFY_PARAM_set1_host copies the name and replaces the expected
\* identity; it fails (allocOk false) when the copy cannot be allocated.
X509_VERIFY_PARAM_set1_host(p, name, allocOk) ==
    IF allocOk
    THEN [rc |-> 1, param |-> [p EXCEPT !.ident = [NoIdent EXCEPT !.kind = "host", !.host = name]]]
    ELSE [rc |-> 0, param |-> p]

\* X509_VERIFY_PARAM_set1_ip reads iplen bytes at ip; it accepts 4 or 16.
X509_VERIFY_PARAM_set1_ip(p, buf, iplen) ==
    IF iplen \in {4, 16}
    THEN [rc |-> 1, param |-> [p EXCEPT !.ident = [NoIdent EXCEPT !.kind = "ip", !.ip = SubSeq(buf, 1, iplen)]]]
    ELSE [rc |-> 0, param |-> p]

\* ---- wrappers

VResult(r) == [res |-> IF cvt(r.rc) THEN "ok" ELSE "err", param |-> r.param]

set_hostflags(p, hostflags) == X509_VERIFY_PARAM_set_hostflags(p, hostflags)
\* A faulty variant of clear_flags: it calls the provider's set_flags.
clear_flags_sets(p, flags) == VResult(X509_VERIFY_PARAM_set_flags(p, flags))

set_flags(p, flags) == VResult(X509_VERIFY_PARAM_set_flags(p, flags))
clear_flags(p, flags) == VResult(X509_VERIFY_PARAM_clear_flags(p, flags))
get_flags(p) == X509_VERIFY_PARAM_get_flags(p)
set_host(p, host, allocOk) == VResult(X509_VERIFY_PARAM_set1_host(p, host, allocOk))

\* A faulty variant of IpBuf: the whole scratch buffer is always supplied.
IpBufWhole(ip) ==
    [buf |-> [i \in 1..16 |-> IF i <= Len(ip.octets) THEN ip.octets[i] ELSE 0],
     len |-> 16]

\* The scratch buffer and the length set_ip hands to the store.
IpBuf(ip) ==
    LET zero == Fill(16, 0)
    IN  IF ip.v = 4
        THEN [buf |-> [i \in 1..16 |-> IF i <= 4 THEN ip.octets[i] ELSE zero[i]],
              len |-> 4]
        ELSE [buf |-> [i \in 1..16 |-> ip.octets[i]], len |-> 16]

set_ip(p, ip) ==
    LET b == IpBuf(ip)
        r == VResult(X509_VERIFY_PARAM_set1_ip(p, b.buf, b.len))
    IN  [res |-> r.res, param |-> r.param, buf |-> b.buf, len |-> b.len]

\* Drop of an owning X509VerifyParam: `fn drop = ffi::X509_VERIFY_PARAM_free`.
X509VerifyParam_drop(l) ==
    [l EXCEPT !.handle = "freed", !.frees = @ + 1, !.view = FALSE]

\* The end of a borrowed &mut X509VerifyParamRef: nothing is released.
X509VerifyParamRef_end(l) == [l EXCEPT !.view = FALSE]

\* ---- inputs

\* The named flags the calls are made with.
FlagNames ==
    {"IGNORE_CRITICAL", "X509_STRICT", "SUITEB_128_LOS_ONLY", "SUITEB_192_LOS",
     "SUITEB_128_LOS"}
HostFlagNames == {"NO_WILDCARDS", "NO_PARTIAL_WILDCARDS"}
Hosts == {"a.example", "b.example"}
IpAddrs ==
    { [v |-> 4, octets |-> <<127, 0, 0, 1>>],
      [v |-> 4, octets |-> <<10, 0, 255, 7>>],
      [v |-> 6, octets |-> <<0, 0, 0, 0, 0, 0, 0, 0, 0, 0, 0, 0, 0, 0, 0, 1>>],
      [v |-> 6, octets |-> <<32, 1, 13, 184, 0, 0, 0, 0, 0, 0, 255, 255, 10, 0, 255, 7>>] }

\* ---- actions

NoVRet ==
    [op |-> "none", res |-> "ok", name |-> "", bits |-> 0, before |-> 0,
     got |-> 0, ip |-> [v |-> 0, octets |-> <<>>], buf |-> <<>>, len |-> 0]
VRet(op, res) == [NoVRet EXCEPT !.op = op, !.res = res]
IsFlagCall(r) == r.op \in {"set_flags", "clear_flags"}

VerifyInit ==
    /\ vp = FreshParam
    /\ vlife \in { [mode |-> m, handle |-> "live", view |-> TRUE, frees |-> 0,
                    sfrees |-> 0] : m \in {"owned", "borrowed"} }
    /\ vret = NoVRet
    /\ vprev = NoVRet

VLive == vlife.view /\ vlife.handle = "live"

SetHostflags ==
    /\ VLive
    /\ \E n \in HostFlagNames :
         /\ vp' = set_hostflags(vp, X509CheckFlags[n])
         /\ vret' = [VRet("set_hostflags", "ok") EXCEPT !.name = n]
    /\ vprev' = NoVRet
    /\ UNCHANGED <<pvars, vlife>>

SetFlags ==
    /\ VLive
    /\ \E n \in FlagNames :
         LET r == set_flags(vp, X509VerifyFlags[n])
         IN  /\ vp' = r.param
             /\ vret' = [VRet("set_flags", r.res) EXCEPT
                           !.name = n, !.bits = X509VerifyFlags[n],
                           !.before = get_flags(vp)]
    /\ vprev' = IF IsFlagCall(vret) THEN vret ELSE NoVRet
    /\ UNCHANGED <<pvars, vlife>>

ClearFlags ==
    /\ VLive
    /\ \E n \in FlagNames :
         LET r == clear_flags(vp, X509VerifyFlags[n])
         IN  /\ vp' = r.param
             /\ vret' = [VRet("clear_flags", r.res) EXCEPT
                           !.name = n, !.bits = X509VerifyFlags[n],
                           !.before = get_flags(vp)]
    /\ vprev' = IF IsFlagCall(vret) THEN vret ELSE NoVRet
    /\ UNCHANGED <<pvars, vlife>>

GetFlags ==
    /\ VLive
    /\ vret' = [VRet("get_flags", "ok") EXCEPT !.got = get_flags(vp)]
    /\ vprev' = NoVRet
    /\ UNCHANGED <<pvars, vp, vlife>>

SetHost ==
    /\ VLive
    /\ \E h \in Hosts, allocOk \in BOOLEAN :
         LET r == set_host(vp, h, allocOk)
         IN  /\ vp' = r.param
             /\ vret' = VRet("set_host", r.res)
    /\ vprev' = NoVRet
    /\ UNCHANGED <<pvars, vlife>>

SetIp ==
    /\ VLive
    /\ \E ip \in IpAddrs :
         LET r == set_ip(vp, ip)
         IN  /\ vp' = r.param
             /\ vret' = [VRet("set_ip", r.res) EXCEPT
                           !.ip = ip, !.buf = r.buf, !.len = r.len]
    /\ vprev' = NoVRet
    /\ UNCHANGED <<pvars, vlife>>

\* The owning X509VerifyParam goes out of scope.
VDrop ==
    /\ vlife.mode = "owned" /\ vlife.view
    /\ vlife' = X509VerifyParam_drop(vlife)
    /\ vret' = VRet("drop", "ok")
    /\ vprev' = NoVRet
    /\ UNCHANGED <<pvars, vp>>

\* A view borrowed from a verification session goes out of scope.
VViewEnd ==
    /\ vlife.mode = "borrowed" /\ vlife.view
    /\ vlife' = X509VerifyParamRef_end(vlife)
    /\ vret' = VRet("end", "ok")
    /\ vprev' = NoVRet
    /\ UNCHANGED <<pvars, vp>>

\* The session that lent the view releases its parameter set.
VSessionFree ==
    /\ vlife.mode = "borrowed" /\ ~vlife.view /\ vlife.handle = "live"
    /\ vlife' = [vlife EXCEPT !.handle = "freed", !.sfrees = @ + 1]
    /\ UNCHANGED <<pvars, vp, vret, vprev>>

VLife == VDrop \/ VViewEnd \/ VSessionFree

\* ========================================================= specifications

\* A component the specification at hand does not exercise stays as created.
PkeyIdle == PkeyInit /\ key = [fam |-> "RSA", cap |-> "private"]
VerifyIdle == VerifyInit /\ vlife.mode = "owned"

Init == PkeyInit /\ VerifyIdle

\* Construction, destruction, mode changes and tuning.
Configure ==
    \/ New \/ NewId \/ Drop
    \/ EncryptInit \/ DecryptInit \/ DeriveInit \/ KeygenInit
    \/ SetRsaPadding \/ SetRsaMgf1Md \/ SetRsaOaepMd
    \/ RsaPadding \/ DeriveSetPeer
    \/ SetKeygenCipher \/ SetKeygenMacKey \/ Keygen

\* The context's life with every setter, the label handoff included.
Next == Configure \/ SetRsaOaepLabel

Spec == Init /\ [][Next]_vars

\* The context's life with the buffer-producing operations (and no label).
CryptNext ==
    \/ Configure
    \/ Encrypt \/ Decrypt \/ Derive
    \/ EncryptToVec \/ DecryptToVec \/ DeriveToVec

CryptSpec == Init /\ [][CryptNext]_vars

\* The verification parameters alone (the key context is never created).
VerifyInitAll == PkeyIdle /\ VerifyInit

VerifyNext ==
    \/ SetHostflags \/ SetFlags \/ ClearFlags \/ GetFlags
    \/ SetHost \/ SetIp
    \/ VLife

VerifySpec == VerifyInitAll /\ [][VerifyNext]_vars

\* Both handles from creation to release, with the calls that can fail.
LifeInit == PkeyInit /\ VerifyInit

LifeNext ==
    \/ New \/ NewId \/ Drop
    \/ EncryptInit \/ DecryptInit \/ KeygenInit
    \/ SetRsaPadding \/ SetRsaOaepLabel \/ SetKeygenMacKey
    \/ SetHost \/ VLife

LifeSpec == LifeInit /\ [][LifeNext]_vars

\* ================================================================= claims

ToVecOps == {"encrypt_to_vec", "decrypt_to_vec", "derive_to_vec"}
BufOps == {"encrypt", "decrypt", "derive"}
InitOps == {"encrypt_init", "decrypt_init", "derive_init", "keygen_init"}

\* C1 (as claimed): set_keygen_mac_key with a key whose length does not fit
\* a 32-bit signed integer returns the InvalidLength error to its caller,
\* without a panic and without a native call.
C1_OversizedMacKeyIsInvalidLength ==
    (ret.op = "set_keygen_mac_key" /\ ~FitsCInt(ret.len))
        => (ret.res = "InvalidLength" /\ ~ret.native)

\* C2: every label copy a set_rsa_oaep_label call allocated is released at
\* most once; a copy whose handoff failed has been freed by the wrapper when
\* the call returns; a copy handed off is never freed by the wrapper, is
\* held by the live context until the provider frees it, and is freed once
\* the context is gone.
C2_LabelCopyReleasedOnce ==
    \A p \in 1..Len(heap) :
        /\ heap[p].frees <= 1
        /\ ~heap[p].handed => (heap[p].frees = 1 /\ heap[p].by = "wrapper")
        /\ heap[p].handed => heap[p].by # "wrapper"
        /\ (heap[p].handed /\ heap[p].frees = 0)
              => (handle = "live" /\ ctx.label = p)
        /\ pc = "done" => heap[p].frees = 1

\* A failed handoff and a successful one, both over, the context released.
C2_Witness ==
    /\ pc = "done"
    /\ \E p, q \in 1..Len(heap) : ~heap[p].handed /\ heap[q].handed

\* C3: after a successful *_to_vec call the vector is its contents before
\* the call followed by exactly the bytes the real call wrote, its length
\* is base + n and n is the value returned.
C3_ToVecAppendsExactly ==
    (ret.op \in ToVecOps /\ ret.res = "ok")
        => /\ ret.out = ret.pre \o ret.wrote
           /\ Len(ret.out) = Len(ret.pre) + ret.val
           /\ ret.val = Len(ret.wrote)

\* A decryption onto a non-empty vector that wrote fewer bytes than the
\* length query answered.
C3_Witness ==
    /\ ret.op = "decrypt_to_vec" /\ ret.res = "ok"
    /\ Len(ret.pre) > 0 /\ ret.val > 0 /\ ret.val < ret.bound

IsQuery(r) == r.op \in BufOps /\ ~r.to.some /\ r.res = "ok"
IsReal(r) == r.op \in BufOps /\ r.to.some /\ r.res = "ok"
SameCall(r1, r2) == r1.op = r2.op /\ r1.data = r2.data

\* C4: a call of encrypt, decrypt or derive without a buffer leaves the
\* context as it was; a second such call right after it returns the same
\* bound; and a real call right after it writes no more than the bound.
C4_QueryIsPure ==
    [][ /\ IsQuery(ret') =>
            (ctx' = ctx /\ heap' = heap /\ handle' = handle /\ lastInit' = lastInit)
        /\ (IsQuery(ret) /\ IsQuery(ret') /\ SameCall(ret, ret'))
              => ret'.val = ret.val
        /\ (IsQuery(ret) /\ IsReal(ret') /\ SameCall(ret, ret'))
              => ret'.val <= ret.val ]_vars

\* A length query answered with the key size.
C4_Witness == IsQuery(ret) /\ ret.op = "decrypt" /\ ret.val = KeySize /\ ret.src.made

ModeOf(op) ==
    CASE op \in {"encrypt", "encrypt_to_vec"} -> "encrypt"
      [] op \in {"decrypt", "decrypt_to_vec"} -> "decrypt"
      [] op \in {"derive", "derive_to_vec"} -> "derive"
      [] OTHER -> "keygen"

\* C5: the context has one active mode, the one of the most recent *_init
\* that returned Ok; a successful *_init leaves the tuning at its defaults;
\* encrypt, decrypt, derive and keygen succeed only in their own mode.
C5_OneActiveMode ==
    /\ ctx.operation = lastInit
    /\ (ret.op \in InitOps /\ ret.res = "ok")
          => ctx = [FreshCtx EXCEPT !.operation = lastInit]
    /\ (ret.op \in BufOps \cup ToVecOps \cup {"keygen"} /\ ret.res = "ok")
          => lastInit = ModeOf(ret.op)

\* A decryption that succeeded on a key that can also encrypt.
C5_Witness ==
    /\ ret.op = "decrypt_to_vec" /\ ret.res = "ok"
    /\ lastInit = "decrypt" /\ ctx.pad = "OAEP"

\* C6: decrypting what a context of the same key with the same padding,
\* digests and label encrypted gives back the plaintext, through decrypt
\* with a buffer of the queried length and through decrypt_to_vec.
C6_RoundTrip ==
    (ret.src.made /\ ret.src.match /\ lastInit = "decrypt")
        => /\ ret.op = "decrypt_to_vec"
                => (ret.res = "ok" /\ ret.out = ret.pre \o ret.src.pt)
           /\ (ret.op = "decrypt" /\ ret.to = Some(KeySize))
                => (ret.res = "ok" /\ ret.wrote = ret.src.pt
                    /\ ret.val = Len(ret.src.pt))

\* An OAEP round trip with SHA-256 for both digests, as in the tests.
C6_Witness ==
    /\ ret.op = "decrypt_to_vec" /\ ret.src.made /\ ret.src.match
    /\ ctx.pad = "OAEP" /\ ctx.oaepMd = "sha256" /\ ctx.mgf1Md = "sha256"
    /\ ret.src.pt # <<>> /\ ret.out = ret.pre \o ret.src.pt

SetThenClear ==
    vprev.op = "set_flags" /\ vret.op = "clear_flags" /\ vprev.bits = vret.bits
SetTwice ==
    vprev.op = "set_flags" /\ vret.op = "set_flags" /\ vprev.bits = vret.bits

\* C7 (as claimed): in any state, set_flags(b) then clear_flags(b) makes
\* get_flags return what it returned before the set_flags call, and
\* set_flags(b) twice leaves get_flags as after the first call.
C7_SetClearRestoresAlways ==
    /\ SetThenClear => get_flags(vp) = vprev.before
    /\ SetTwice => get_flags(vp) = vret.before

\* C7 (amended): the same, for a flag value b none of whose bits was set
\* before the set_flags call; set_flags(b) twice equals once in any state.
C7_SetClearRestoresWhenUnset ==
    /\ (SetThenClear /\ BitAnd(vprev.before, vprev.bits) = 0)
          => get_flags(vp) = vprev.before
    /\ SetTwice => get_flags(vp) = vret.before

\* set_flags(b) then clear_flags(b) with b unset and another flag set.
C7_Witness ==
    /\ SetThenClear /\ BitAnd(vprev.before, vprev.bits) = 0
    /\ vprev.before # 0 /\ get_flags(vp) = vprev.before

\* C8 (as claimed): a named flag has the raw value the provider's table
\* gives that name, so set_flags of a named flag ORs in exactly that value.
C8_NamedFlagHasProviderValue ==
    (vret.op = "set_flags" /\ vret.res = "ok")
        => /\ vret.bits = FFI_X509_V_FLAG[vret.name]
           /\ get_flags(vp) = BitOr(vret.before, FFI_X509_V_FLAG[vret.name])

\* C9: set_ip supplies 4 bytes for an IPv4 address and 16 for an IPv6
\* address, the bytes supplied are the address's octets in order, and the
\* rest of the 16-byte scratch buffer lies outside the supplied length.
C9_SetIpSuppliesOctets ==
    vret.op = "set_ip"
        => /\ vret.len = (IF vret.ip.v = 4 THEN 4 ELSE 16)
           /\ vret.len = Len(vret.ip.octets)
           /\ SubSeq(vret.buf, 1, vret.len) = vret.ip.octets

\* An IPv4 address supplied as the first 4 bytes of the scratch buffer.
C9_Witness ==
    /\ vret.op = "set_ip" /\ vret.ip.v = 4 /\ vret.len = 4
    /\ Len(vret.buf) = 16 /\ SubSeq(vret.buf, 1, 4) = <<10, 0, 255, 7>>

\* C10: EVP_PKEY_CTX_free is called once, by the drop of the owning PkeyCtx
\* and not before; a null handle is never wrapped and never freed; the
\* owning X509VerifyParam frees its handle once, at its drop, and a borrowed
\* X509VerifyParamRef frees nothing (the lending session frees, once).
C10_HandleReleasedOnceByOwner ==
    /\ ctxFrees = (IF owner = "dropped" THEN 1 ELSE 0)
    /\ owner # "none" => handle # "null"
    /\ handle = "freed" <=> owner = "dropped"
    /\ (ret.op \in {"new", "new_id"} /\ ret.res = "err")
          => (owner = "none" /\ handle = "null" /\ pc = "done")
    /\ vlife.frees = (IF vlife.mode = "owned" /\ ~vlife.view THEN 1 ELSE 0)
    /\ vlife.handle = "freed" <=> vlife.frees + vlife.sfrees = 1
    /\ vlife.frees + vlife.sfrees <= 1

\* Both owners gone, the context after a label copy was allocated for it.
C10_Witness ==
    /\ owner = "dropped" /\ ctxFrees = 1 /\ Len(heap) > 0
    /\ vlife.mode = "owned" /\ vlife.frees = 1 /\ vp.ident.kind = "none"

\* The length query of the *_to_vec call recorded in r, on context c: the
\* call did not change the context, so the query can be asked again.
QueryOf(r, c, h) ==
    CASE r.op = "encrypt_to_vec" -> encrypt(c, h, r.data, None, 1)
      [] r.op = "decrypt_to_vec" -> decrypt(c, h, r.data, None)
      [] OTHER -> derive(c, None)

\* C11: in every outcome of a *_to_vec call the vector still starts with
\* its contents before the call; when the length query fails the call
\* fails after that one native call and the vector is as it was; when the
\* real call fails after a successful query the call fails after that
\* second native call and the vector has length base + bound.
C11_ToVecFailureLeavesVector ==
    ret.op \in ToVecOps =>
        LET q == QueryOf(ret, ctx, heap)
            base == Len(ret.pre)
        IN  /\ Len(ret.out) >= base
            /\ SubSeq(ret.out, 1, base) = ret.pre
            /\ ~q.ok => (ret.res = "err" /\ ret.out = ret.pre /\ ret.calls = 1)
            /\ (q.ok /\ ret.res = "err")
                  => (Len(ret.out) = base + q.val /\ ret.bound = q.val
                      /\ ret.calls = 2)

\* A decryption of bytes no encryption made, onto a non-empty vector: the
\* query answered, the real call failed, the vector stayed grown.
C11_Witness ==
    /\ ret.op = "decrypt_to_vec" /\ ret.res = "err" /\ ~ret.src.made
    /\ QueryOf(ret, ctx, heap).ok
    /\ Len(ret.pre) > 0 /\ Len(ret.out) = Len(ret.pre) + KeySize

====
